---- MODULE Spec2Model ----
(***************************************************************************)
(* Model of the Aham journal: the SQLite store opened by the server (five   *)
(* tables and the AUTOINCREMENT bookkeeping table), the express handlers    *)
(* that read and write it, the Gemini service of the page, and the handlers *)
(* of the page that load a day, save entries, generate the image of a day,  *)
(* analyze the journal and list the targets of a period.                    *)
(* A table is a set of rows, a row is a record whose fields                 *)
(* carry the column names of the schema.  An express handler runs           *)
(* synchronously from its first statement to res.json, so it is one action; *)
(* a handler of the page is one action per stretch between two awaits.      *)
(***************************************************************************)
EXTENDS Integers, Sequences, FiniteSets, Bags, TLC

VARIABLES entries, targets, tasks, routine_templates, routine_template_tasks,
          sqlite_sequence, allocated, supplied, last,
          requests, handled,
          entry, userSaved, isGeneratingImage, generating,
          insights, analysis, isAnalyzing, analyzing, gemini,
          selectedDate, dayTasks, loading, fetching,
          type, shownTargets, now

store == <<entries, targets, tasks, routine_templates, routine_template_tasks>>
\* history: the rowids every table has held, the last image saved for a date
hist == <<allocated, supplied>>
\* the requests on their way to the server, and (history) the bodies of the
\* saves the server has carried out, in the order it handled them
network == <<requests, handled>>
\* the state of the page: the day view and the insights view
\* (userSaved is history: the object of the user's latest edit)
\* the day the day view shows, with its task list and the fetchDailyData calls
\* that have not settled; the targets view, and the clock its keys are read from
views == <<selectedDate, dayTasks, loading, fetching, type, shownTargets, now>>
client == <<entry, userSaved, isGeneratingImage, generating,
            insights, analysis, isAnalyzing, analyzing, gemini, views>>
vars == <<entries, targets, tasks, routine_templates, routine_template_tasks,
          sqlite_sequence, allocated, supplied, last,
          requests, handled,
          entry, userSaved, isGeneratingImage, generating,
          insights, analysis, isAnalyzing, analyzing, gemini,
          selectedDate, dayTasks, loading, fetching,
          type, shownTargets, now>>

-----------------------------------------------------------------------------
(* Bounds of the model.                                                    *)

\* largest rowid the entries table hands out (each save consumes one)
MaxEntryId == 3
\* largest rowid of the targets table
MaxTargetId == 2
\* largest rowid of the tasks table
MaxTaskId == 3
\* largest rowid of the routine_templates table
MaxTemplateId == 2

-----------------------------------------------------------------------------
(* Values.  A JSON body field that is missing reads as undefined in the     *)
(* handler; SQL NULL is Null.                                               *)

Undefined == "undefined"
Null == "NULL"

Dates == {"2024-01-01", "2024-02-02"}
\* the dates of a journal of three days, in the order of their texts (the
\* BINARY collation of SQLite compares TEXT byte by byte)
DateOrder == <<"2023-12-31", "2024-01-01", "2024-02-02">>
JournalDates == {DateOrder[i] : i \in 1..Len(DateOrder)}
Rank(d) == CHOOSE i \in 1..Len(DateOrder) : DateOrder[i] = d
TextFields == {"journal_text", "mood", "sleep_start", "sleep_end", "reflection_json"}
Versions == {"hello", "bye"}
Images == {"data:image/png;base64,A", "data:image/png;base64,B"}
Titles == {"Stretch", "Hydrate"}
Types == {"daily", "weekly"}
PeriodKeys == {"2024-01", "2024-02"}
Names == {"Morning", "Evening"}
Tables == {"entries", "targets", "tasks", "routine_templates", "routine_template_tasks"}

\* The clock of the page, for the keys of the targets view: a day of 2024 as
\* its number in the year.  new Date() is read again at every call.
ClockDays == <<3, 10, 40>>
Today == ClockDays[1]
DaysInMonth == <<31, 29, 31, 30, 31, 30, 31, 31, 30, 31, 30, 31>>

\* a date of the calendar: 2024-01-01 is a Monday, 2023 had 365 days
DayOfYear(y, n) == [year |-> y, day |-> n]
WeekDay(date) == IF date.year = 2024 THEN date.day % 7 ELSE (date.day + 6) % 7

RECURSIVE MonthFrom(_, _)
MonthFrom(n, m) == IF n <= DaysInMonth[m] THEN m ELSE MonthFrom(n - DaysInMonth[m], m + 1)
RECURSIVE DayFrom(_, _)
DayFrom(n, m) == IF n <= DaysInMonth[m] THEN n ELSE DayFrom(n - DaysInMonth[m], m + 1)

\* date-fns startOfWeek(date): the Sunday on or before it
StartOfWeek(date) ==
  LET n == date.day - WeekDay(date)
  IN  IF n >= 1 THEN DayOfYear(date.year, n) ELSE DayOfYear(date.year - 1, 365 + n)

\* date-fns local week of the year (weeks start on Sunday, week 1 holds
\* January 1st): the last days of December are in week 1 of the next year
WeekOfYear(date) ==
  LET start == date.day - WeekDay(date)
      first == IF date.year = 2024 THEN 0 ELSE 1
      length == IF date.year = 2024 THEN 366 ELSE 365
  IN  IF start + 6 > length THEN 1 ELSE (start - first) \div 7 + 1

\* two digits, as the patterns MM, dd and ww print a number
Pad2(n) == IF n < 10 THEN "0" \o ToString(n) ELSE ToString(n)

\* date-fns format(date, pattern) for the three patterns of the page
Format(date, pattern) ==
  LET yyyy == ToString(date.year)
      MM == Pad2(IF date.year = 2024 THEN MonthFrom(date.day, 1) ELSE 12)
      dd == Pad2(IF date.year = 2024 THEN DayFrom(date.day, 1) ELSE date.day - 334)
  IN  CASE pattern = "yyyy-MM-dd" -> yyyy \o "-" \o MM \o "-" \o dd
        [] pattern = "yyyy-ww" -> yyyy \o "-" \o Pad2(WeekOfYear(date))
        [] pattern = "yyyy-MM" -> yyyy \o "-" \o MM

\* better-sqlite3 binds undefined and null as SQL NULL, a string as TEXT
Bind(v) == IF v = Undefined THEN Null ELSE v

\* SQL COALESCE(a, b)
Coalesce(a, b) == IF a # Null THEN a ELSE b

\* JavaScript truthiness of a JSON value (written as its JSON text)
Truthy(v) == v \notin {"undefined", "null", "false", "0", "\"\""}

\* mutant: a number in the payload is stored as sent
CoerceKeepsNumbers(v) == IF v = "2" THEN 2 ELSE IF Truthy(v) THEN 1 ELSE 0

\* the `completed ? 1 : 0` of the PATCH handlers
Coerce(v) == IF Truthy(v) THEN 1 ELSE 0

\* Bodies of POST /api/entries: the text fields that are present carry one
\* version string, at most one text field is omitted, the image is omitted
\* or an image string.
EntryBody(d, v, omit, img) ==
  [date |-> d,
   journal_text    |-> IF omit = "journal_text" THEN Undefined ELSE v,
   mood            |-> IF omit = "mood" THEN Undefined ELSE v,
   sleep_start     |-> IF omit = "sleep_start" THEN Undefined ELSE v,
   sleep_end       |-> IF omit = "sleep_end" THEN Undefined ELSE v,
   reflection_json |-> IF omit = "reflection_json" THEN Undefined ELSE v,
   image_data      |-> img]

EntryBodies ==
  {EntryBody(d, v, omit, img) :
     d \in Dates, v \in Versions, omit \in TextFields \cup {"none"},
     img \in Images \cup {Undefined}}

Ids(table) == {r.id : r \in table}

\* res.json(...) of a handler that ran to its end; a handler that throws is
\* answered by express with status 500 and no JSON body
Ok(req, json) == [req |-> req, status |-> 200, json |-> json]
Failed(req) == [req |-> req, status |-> 500, json |-> Null]

\* mutant: a rowid without AUTOINCREMENT, one more than the largest in the table
NextIdAfterLargestRow(table) ==
  LET ids == Ids(CASE table = "entries" -> entries
                   [] table = "targets" -> targets
                   [] table = "tasks" -> tasks
                   [] table = "routine_templates" -> routine_templates
                   [] OTHER -> routine_template_tasks)
  IN  IF ids = {} THEN 1 ELSE 1 + CHOOSE m \in ids : \A i \in ids : i <= m

\* AUTOINCREMENT: the next rowid is one more than the largest ever used
NextId(table) == sqlite_sequence[table] + 1

-----------------------------------------------------------------------------
(* The database after CREATE TABLE IF NOT EXISTS on a new file.             *)

NoRequest == [req |-> [op |-> "none"], status |-> 0, json |-> Null]

\* JSON.stringify of the five empty answers
BlankReflection ==
  "{\"worries\":\"\",\"sadness\":\"\",\"annoyance\":\"\",\"bodyNeeds\":\"\",\"loveliness\":\"\"}"

\* the JavaScript value null where the other values are objects
JsNull == [type |-> "null"]

\* useState(null) of the day view's entry: an object without any field
NoEntry ==
  [date |-> Undefined, journal_text |-> Undefined, mood |-> Undefined,
   sleep_start |-> Undefined, sleep_end |-> Undefined,
   reflection_json |-> Undefined, image_data |-> Undefined]

\* nothing is on its way and no handler of the page is running
IdlePage ==
  /\ requests = EmptyBag
  /\ handled = <<>>
  /\ userSaved = NoEntry
  /\ isGeneratingImage = FALSE
  /\ generating = [pc |-> "idle"]
  /\ insights = <<>>
  /\ analysis = JsNull
  /\ isAnalyzing = FALSE
  /\ analyzing = [pc |-> "idle"]
  /\ gemini = [fn |-> "none"]
  /\ type = "daily"
  /\ shownTargets = <<>>
  /\ now = Today

\* no page is open: the useState initial values
NoClient ==
  /\ IdlePage
  /\ entry = NoEntry
  /\ selectedDate = "2024-01-01"
  /\ dayTasks = <<>>
  /\ loading = FALSE
  /\ fetching = EmptyBag

Init ==
  /\ entries = {}
  /\ targets = {}
  /\ tasks = {}
  /\ routine_templates = {}
  /\ routine_template_tasks = {}
  /\ sqlite_sequence = [t \in Tables |-> 0]
  /\ allocated = [t \in Tables |-> {}]
  /\ supplied = [d \in JournalDates |-> Null]
  /\ last = NoRequest
  /\ NoClient

-----------------------------------------------------------------------------
(* Entries.                                                                 *)

\* mutant: the two sleep values are bound in the other order
NewEntrySwapsSleep(b, id) ==
  [id |-> id, date |-> Bind(b.date),
   journal_text |-> Bind(b.journal_text), mood |-> Bind(b.mood),
   sleep_start |-> Bind(b.sleep_end), sleep_end |-> Bind(b.sleep_start),
   reflection_json |-> Bind(b.reflection_json), image_data |-> Bind(b.image_data)]

\* the row POST /api/entries inserts when the date is new
NewEntry(b, id) ==
  [id |-> id, date |-> Bind(b.date),
   journal_text |-> Bind(b.journal_text), mood |-> Bind(b.mood),
   sleep_start |-> Bind(b.sleep_start), sleep_end |-> Bind(b.sleep_end),
   reflection_json |-> Bind(b.reflection_json), image_data |-> Bind(b.image_data)]

\* mutant: the update overwrites image_data like every other column
UpsertEntryOverwritesImage(table, b, id) ==
  IF \E r \in table : r.date = Bind(b.date)
  THEN {IF r.date = Bind(b.date) THEN NewEntry(b, r.id) ELSE r : r \in table}
  ELSE table \cup {NewEntry(b, id)}

\* mutant: INSERT OR REPLACE, the row of the date is deleted and inserted anew
UpsertEntryReplaces(table, b, id) ==
  {r \in table : r.date # Bind(b.date)} \cup
    {[NewEntry(b, id) EXCEPT !.image_data =
        IF \E r \in table : r.date = Bind(b.date) /\ Bind(b.image_data) = Null
        THEN (CHOOSE r \in table : r.date = Bind(b.date)).image_data
        ELSE Bind(b.image_data)]}

\* mutant: the update keeps the stored value of every column the payload omits
UpsertEntryKeepsFilled(table, b, id) ==
  IF \E r \in table : r.date = Bind(b.date)
  THEN {IF r.date = Bind(b.date)
        THEN [r EXCEPT !.journal_text = Coalesce(Bind(b.journal_text), @),
                       !.mood = Coalesce(Bind(b.mood), @),
                       !.sleep_start = Coalesce(Bind(b.sleep_start), @),
                       !.sleep_end = Coalesce(Bind(b.sleep_end), @),
                       !.reflection_json = Coalesce(Bind(b.reflection_json), @),
                       !.image_data = Coalesce(Bind(b.image_data), @)]
        ELSE r : r \in table}
  ELSE table \cup {NewEntry(b, id)}

\* INSERT ... ON CONFLICT(date) DO UPDATE SET ... of POST /api/entries
UpsertEntry(table, b, id) ==
  LET conflict == {r \in table : Bind(b.date) # Null /\ r.date = Bind(b.date)}
  IN  IF conflict = {}
      THEN table \cup {NewEntry(b, id)}
      ELSE {IF r \in conflict
            THEN [r EXCEPT !.journal_text = Bind(b.journal_text),
                           !.mood = Bind(b.mood),
                           !.sleep_start = Bind(b.sleep_start),
                           !.sleep_end = Bind(b.sleep_end),
                           !.reflection_json = Bind(b.reflection_json),
                           !.image_data = Coalesce(Bind(b.image_data), r.image_data)]
            ELSE r : r \in table}

\* app.get("/api/entries/:date")
GetEntry(d) ==
  /\ LET found == {r \in entries : r.date = d}
     IN  last' = Ok([op |-> "GET /api/entries/:date", date |-> d],
                    IF found = {} THEN Null ELSE CHOOSE r \in found : TRUE)
  /\ UNCHANGED <<store, sqlite_sequence, hist>>

\* mutant: ORDER BY date, the oldest date first
SortByDateAsc(rows) == 
  LET RECURSIVE Asc(_)
      Asc(rest) ==
        IF rest = {} THEN <<>>
        ELSE LET first == CHOOSE r \in rest : \A q \in rest : Rank(r.date) <= Rank(q.date)
             IN  <<first>> \o Asc(rest \ {first})
  IN  Asc(rows)

\* ORDER BY date DESC (date is UNIQUE: no two rows tie)
SortByDateDesc(rows) == 
  LET RECURSIVE Desc(_)
      Desc(rest) ==
        IF rest = {} THEN <<>>
        ELSE LET first == CHOOSE r \in rest : \A q \in rest : Rank(r.date) >= Rank(q.date)
             IN  <<first>> \o Desc(rest \ {first})
  IN  Desc(rows)

\* app.get("/api/entries")
GetEntries ==
  /\ last' = Ok([op |-> "GET /api/entries"], SortByDateDesc(entries))
  /\ UNCHANGED <<store, sqlite_sequence, hist>>

\* app.post("/api/entries"): one statement, which either runs or fails whole
PostEntries(b, fails) ==
  /\ sqlite_sequence["entries"] < MaxEntryId
  /\ IF fails
     THEN /\ last' = Failed([op |-> "POST /api/entries"])
          /\ UNCHANGED <<store, sqlite_sequence, hist>>
     ELSE /\ entries' = UpsertEntry(entries, b, NextId("entries"))
          /\ sqlite_sequence' = [sqlite_sequence EXCEPT !["entries"] = @ + 1]
          /\ allocated' = [allocated EXCEPT !["entries"] = @ \cup Ids(entries')]
          /\ supplied' = IF Bind(b.image_data) # Null
                         THEN [supplied EXCEPT ![b.date] = b.image_data]
                         ELSE supplied
          /\ last' = Ok([op |-> "POST /api/entries", body |-> b], [success |-> TRUE])
          /\ UNCHANGED <<targets, tasks, routine_templates, routine_template_tasks>>

-----------------------------------------------------------------------------
(* Statements shared by the targets and tasks handlers.                     *)

\* the array .all() returns: rows in rowid order
RECURSIVE SeqById(_)
SeqById(rows) ==
  IF rows = {} THEN <<>>
  ELSE LET first == CHOOSE r \in rows : \A q \in rows : r.id <= q.id
       IN  <<first>> \o SeqById(rows \ {first})

\* mutant: the statement flips the stored flag instead of storing the value
SetCompletedToggles(table, id, c) ==
  {IF r.id = id THEN [r EXCEPT !.completed = 1 - @] ELSE r : r \in table}

\* mutant: a row is made for an id that has none
SetCompletedUpserts(table, id, c) ==
  IF id \in Ids(table)
  THEN {IF r.id = id THEN [r EXCEPT !.completed = c] ELSE r : r \in table}
  ELSE table \cup {[id |-> id, completed |-> c]}

\* UPDATE <table> SET completed = ? WHERE id = ?
SetCompleted(table, id, c) ==
  {IF r.id = id THEN [r EXCEPT !.completed = c] ELSE r : r \in table}

\* DELETE FROM <table> WHERE id = ?
DeleteById(table, id) == {r \in table : r.id # id}

\* a statement that writes no row has nothing to fail on
Writes(table, id) == id \in Ids(table)

-----------------------------------------------------------------------------
(* Targets.                                                                 *)

TargetBodies == [type : Types, title : {"Stretch"}, period_key : PeriodKeys]
CompletedBodies == [completed : {"true", "false", "undefined"}]

\* app.get("/api/targets/:period")
GetTargets(period) ==
  /\ last' = Ok([op |-> "GET /api/targets/:period", period |-> period],
                SeqById({r \in targets : r.period_key = period}))
  /\ UNCHANGED <<store, sqlite_sequence, hist>>

\* app.post("/api/targets")
PostTargets(b, fails) ==
  /\ sqlite_sequence["targets"] < MaxTargetId
  /\ IF fails
     THEN /\ last' = Failed([op |-> "POST /api/targets", body |-> b])
          /\ UNCHANGED <<store, sqlite_sequence, hist>>
     ELSE LET id == NextId("targets")
          IN  /\ targets' = targets \cup
                   {[id |-> id, type |-> Bind(b.type), title |-> Bind(b.title),
                     completed |-> 0, period_key |-> Bind(b.period_key)]}
              /\ sqlite_sequence' = [sqlite_sequence EXCEPT !["targets"] = id]
              /\ allocated' = [allocated EXCEPT !["targets"] = @ \cup {id}]
              /\ last' = Ok([op |-> "POST /api/targets", body |-> b], [id |-> id])
              /\ UNCHANGED <<entries, tasks, routine_templates, routine_template_tasks,
                             supplied>>

\* app.patch("/api/targets/:id")
PatchTargets(id, b, fails) ==
  IF fails /\ Writes(targets, id)
  THEN /\ last' = Failed([op |-> "PATCH /api/targets/:id", id |-> id, body |-> b])
       /\ UNCHANGED <<store, sqlite_sequence, hist>>
  ELSE /\ targets' = SetCompleted(targets, id, Coerce(b.completed))
       /\ last' = Ok([op |-> "PATCH /api/targets/:id", id |-> id, body |-> b],
                     [success |-> TRUE])
       /\ UNCHANGED <<entries, tasks, routine_templates, routine_template_tasks,
                      sqlite_sequence, hist>>

\* app.delete("/api/targets/:id")
DeleteTargets(id, fails) ==
  IF fails /\ Writes(targets, id)
  THEN /\ last' = Failed([op |-> "DELETE /api/targets/:id", id |-> id])
       /\ UNCHANGED <<store, sqlite_sequence, hist>>
  ELSE /\ targets' = DeleteById(targets, id)
       /\ last' = Ok([op |-> "DELETE /api/targets/:id", id |-> id], [success |-> TRUE])
       /\ UNCHANGED <<entries, tasks, routine_templates, routine_template_tasks,
                      sqlite_sequence, hist>>

-----------------------------------------------------------------------------
(* Tasks.                                                                   *)

TaskBodies == [date : Dates, title : {"Stretch"}]

\* mutant: a title the date already has a task for is skipped
InsertTasksSkipsDuplicates(table, date, titles, firstId) ==
  table \cup {[id |-> firstId + i - 1, date |-> Bind(date),
               title |-> Bind(titles[i]), completed |-> 0] :
                 i \in {j \in 1..Len(titles) :
                          ~ \E r \in table : r.date = date /\ r.title = titles[j]}}

\* mutant: the new rows replace the tasks the date had
InsertTasksReplacesDay(table, date, titles, firstId) ==
  {r \in table : r.date # date} \cup
    {[id |-> firstId + i - 1, date |-> Bind(date),
      title |-> Bind(titles[i]), completed |-> 0] : i \in 1..Len(titles)}

\* INSERT INTO tasks (date, title) VALUES (?, ?), once per title, in order
InsertTasks(table, date, titles, firstId) ==
  table \cup {[id |-> firstId + i - 1, date |-> Bind(date),
               title |-> Bind(titles[i]), completed |-> 0] : i \in 1..Len(titles)}

\* mutant: the WHERE date = ? is missing
GetTasksOfEveryDate(d) ==
  /\ last' = Ok([op |-> "GET /api/tasks/:date", date |-> d], SeqById(tasks))
  /\ UNCHANGED <<store, sqlite_sequence, hist>>

\* app.get("/api/tasks/:date")
GetTasks(d) ==
  /\ last' = Ok([op |-> "GET /api/tasks/:date", date |-> d],
                SeqById({r \in tasks : r.date = d}))
  /\ UNCHANGED <<store, sqlite_sequence, hist>>

\* app.post("/api/tasks")
PostTasks(b, fails) ==
  /\ sqlite_sequence["tasks"] < MaxTaskId
  /\ IF fails
     THEN /\ last' = Failed([op |-> "POST /api/tasks", body |-> b])
          /\ UNCHANGED <<store, sqlite_sequence, hist>>
     ELSE LET id == NextId("tasks")
          IN  /\ tasks' = InsertTasks(tasks, b.date, <<b.title>>, id)
              /\ sqlite_sequence' = [sqlite_sequence EXCEPT !["tasks"] = id]
              /\ allocated' = [allocated EXCEPT !["tasks"] = @ \cup {id}]
              /\ last' = Ok([op |-> "POST /api/tasks", body |-> b], [id |-> id])
              /\ UNCHANGED <<entries, targets, routine_templates, routine_template_tasks,
                             supplied>>

\* app.patch("/api/tasks/:id")
PatchTasks(id, b, fails) ==
  IF fails /\ Writes(tasks, id)
  THEN /\ last' = Failed([op |-> "PATCH /api/tasks/:id", id |-> id, body |-> b])
       /\ UNCHANGED <<store, sqlite_sequence, hist>>
  ELSE /\ tasks' = SetCompleted(tasks, id, Coerce(b.completed))
       /\ last' = Ok([op |-> "PATCH /api/tasks/:id", id |-> id, body |-> b],
                     [success |-> TRUE])
       /\ UNCHANGED <<entries, targets, routine_templates, routine_template_tasks,
                      sqlite_sequence, hist>>

\* app.delete("/api/tasks/:id")
DeleteTasks(id, fails) ==
  IF fails /\ Writes(tasks, id)
  THEN /\ last' = Failed([op |-> "DELETE /api/tasks/:id", id |-> id])
       /\ UNCHANGED <<store, sqlite_sequence, hist>>
  ELSE /\ tasks' = DeleteById(tasks, id)
       /\ last' = Ok([op |-> "DELETE /api/tasks/:id", id |-> id], [success |-> TRUE])
       /\ UNCHANGED <<entries, targets, routine_templates, routine_template_tasks,
                      sqlite_sequence, hist>>

-----------------------------------------------------------------------------
(* Routine templates.                                                       *)

\* the `tasks` arrays of the bodies
TitleSeqs == {<<>>, <<"Hydrate">>, <<"Stretch", "Hydrate">>}

\* bodies of POST /api/routine-templates, the `tasks` array present or missing
TemplateBodies == [name : Names, tasks : TitleSeqs] \cup [name : Names]

ApplyBodies == [date : Dates, templateId : 1..(MaxTemplateId + 1)]

\* the rows of routine_template_tasks owned by template id
ChildrenOf(id) == {c \in routine_template_tasks : c.template_id = id}

\* mutant: foreign keys are not enforced, the children of a deleted template stay
NoCascade(children, deleted) == children

\* FOREIGN KEY(template_id) REFERENCES routine_templates(id) ON DELETE CASCADE,
\* enforced because better-sqlite3 opens the database with foreign keys on
OnDeleteCascade(children, deleted) == {c \in children : c.template_id \notin deleted}

\* INSERT INTO routine_template_tasks (template_id, title), once per title
InsertTemplateTasks(table, templateId, titles, firstId) ==
  table \cup {[id |-> firstId + i - 1, template_id |-> templateId,
               title |-> Bind(titles[i])] : i \in 1..Len(titles)}

\* app.get("/api/routine-templates")
GetRoutineTemplates ==
  /\ last' = Ok([op |-> "GET /api/routine-templates"],
                [i \in 1..Cardinality(routine_templates) |->
                   LET t == SeqById(routine_templates)[i]
                   IN  [id |-> t.id, name |-> t.name, tasks |-> SeqById(ChildrenOf(t.id))]])
  /\ UNCHANGED <<store, sqlite_sequence, hist>>

\* mutant: the name column is not UNIQUE
NameIsFree(table, name) == FALSE

\* name TEXT UNIQUE: an INSERT fails when a row has the name; NULL is no name
\* and conflicts with nothing
NameTaken(table, name) == name # Null /\ \E t \in table : t.name = name

\* the titles the for loop of POST /api/routine-templates gets to insert
BodyTitles(b) == IF "tasks" \in DOMAIN b THEN b.tasks ELSE <<>>

\* app.post("/api/routine-templates"): one INSERT for the template, then one
\* per title; `ran` statements run before the store fails (all of them when
\* it does not).  A name that is taken fails the first INSERT (name UNIQUE);
\* a body without `tasks` throws at the for loop, after the first INSERT.
PostRoutineTemplates(b, ran) ==
  LET titles == BodyTitles(b)
      op == "POST /api/routine-templates"
      templateId == NextId("routine_templates")
      first == NextId("routine_template_tasks")
  IN  /\ sqlite_sequence["routine_templates"] < MaxTemplateId
      /\ ran <= 1 + Len(titles)
      /\ IF ran = 0 \/ NameTaken(routine_templates, Bind(b.name))
         THEN /\ last' = Failed([op |-> op, name |-> b.name])
              /\ UNCHANGED <<store, sqlite_sequence, hist>>
         ELSE /\ routine_templates' =
                   routine_templates \cup {[id |-> templateId, name |-> Bind(b.name)]}
              /\ routine_template_tasks' =
                   InsertTemplateTasks(routine_template_tasks, templateId,
                                       SubSeq(titles, 1, ran - 1), first)
              /\ sqlite_sequence' =
                   [sqlite_sequence EXCEPT !["routine_templates"] = templateId,
                                           !["routine_template_tasks"] = @ + ran - 1]
              /\ allocated' =
                   [allocated EXCEPT !["routine_templates"] = @ \cup {templateId},
                                     !["routine_template_tasks"] =
                                        @ \cup (first..(first + ran - 2))]
              /\ last' = IF "tasks" \in DOMAIN b /\ ran = 1 + Len(titles)
                         THEN Ok([op |-> op, body |-> b], [id |-> templateId])
                         ELSE Failed([op |-> op, name |-> b.name])
              /\ UNCHANGED <<entries, targets, tasks, supplied>>

\* mutant: the tasks that carry a title of the template are deleted with it
DeleteRoutineTemplatesAndTasks(id, fails) ==
  IF fails /\ Writes(routine_templates, id)
  THEN /\ last' = Failed([op |-> "DELETE /api/routine-templates/:id", id |-> id])
       /\ UNCHANGED <<store, sqlite_sequence, hist>>
  ELSE /\ routine_templates' = DeleteById(routine_templates, id)
       /\ routine_template_tasks' =
            OnDeleteCascade(routine_template_tasks,
                            Ids(routine_templates) \ Ids(routine_templates'))
       /\ tasks' = {r \in tasks : \A c \in ChildrenOf(id) : c.title # r.title}
       /\ last' = Ok([op |-> "DELETE /api/routine-templates/:id", id |-> id],
                     [success |-> TRUE])
       /\ UNCHANGED <<entries, targets, sqlite_sequence, hist>>

\* app.delete("/api/routine-templates/:id"): one DELETE, children cascade
DeleteRoutineTemplates(id, fails) ==
  IF fails /\ Writes(routine_templates, id)
  THEN /\ last' = Failed([op |-> "DELETE /api/routine-templates/:id", id |-> id])
       /\ UNCHANGED <<store, sqlite_sequence, hist>>
  ELSE /\ routine_templates' = DeleteById(routine_templates, id)
       /\ routine_template_tasks' =
            OnDeleteCascade(routine_template_tasks,
                            Ids(routine_templates) \ Ids(routine_templates'))
       /\ last' = Ok([op |-> "DELETE /api/routine-templates/:id", id |-> id],
                     [success |-> TRUE])
       /\ UNCHANGED <<entries, targets, tasks, sqlite_sequence, hist>>

\* the titles SELECT title FROM routine_template_tasks WHERE template_id = ? returns
TemplateTitles(templateId) ==
  LET rows == SeqById(ChildrenOf(templateId))
  IN  [i \in 1..Len(rows) |-> rows[i].title]

\* app.post("/api/apply-template"): one SELECT, then one INSERT per title with
\* no transaction around them; `ran` INSERTs run before the store fails (all
\* of them when it does not)
ApplyTemplate(b, ran) ==
  LET titles == TemplateTitles(b.templateId)
      req == [op |-> "POST /api/apply-template", body |-> b]
      first == NextId("tasks")
  IN  /\ sqlite_sequence["tasks"] + Len(titles) <= MaxTaskId
      /\ ran <= Len(titles)
      /\ tasks' = InsertTasks(tasks, b.date, SubSeq(titles, 1, ran), first)
      /\ sqlite_sequence' = [sqlite_sequence EXCEPT !["tasks"] = @ + ran]
      /\ allocated' = [allocated EXCEPT !["tasks"] = @ \cup (first..(first + ran - 1))]
      /\ last' = IF ran = Len(titles) THEN Ok(req, [success |-> TRUE]) ELSE Failed(req)
      /\ UNCHANGED <<entries, targets, routine_templates, routine_template_tasks,
                     supplied>>

-----------------------------------------------------------------------------
(* Specifications.                                                          *)

\* The database file outlives the server: at start it is new, or it holds the
\* rows an earlier run left in it.
SavedEntry ==
  [id |-> 1, date |-> "2024-01-01", journal_text |-> "hello", mood |-> "hello",
   sleep_start |-> "hello", sleep_end |-> "hello", reflection_json |-> "hello",
   image_data |-> "data:image/png;base64,A"]

SavedTarget ==
  [id |-> 1, type |-> "daily", title |-> "Stretch", completed |-> 1,
   period_key |-> "2024-01"]

SavedTask == [id |-> 1, date |-> "2024-01-01", title |-> "Stretch", completed |-> 1]

SavedStore ==
  /\ entries = {SavedEntry}
  /\ targets = {SavedTarget}
  /\ tasks = {SavedTask}
  /\ routine_templates = {}
  /\ routine_template_tasks = {}
  /\ sqlite_sequence =
       [t \in Tables |-> IF t \in {"entries", "targets", "tasks"} THEN 1 ELSE 0]
  /\ allocated =
       [t \in Tables |-> IF t \in {"entries", "targets", "tasks"} THEN {1} ELSE {}]
  /\ supplied =
       [d \in JournalDates |-> IF d = SavedEntry.date THEN SavedEntry.image_data ELSE Null]
  /\ last = NoRequest

InitSaved == SavedStore /\ NoClient

NextRoutines ==
  \/ GetRoutineTemplates
          /\ UNCHANGED <<network, client>>
  \/ \E b \in TemplateBodies : \E ran \in 0..(1 + Len(BodyTitles(b))) :
        PostRoutineTemplates(b, ran)
          /\ UNCHANGED <<network, client>>
  \/ \E id \in 1..(MaxTemplateId + 1), fails \in BOOLEAN : DeleteRoutineTemplates(id, fails)
          /\ UNCHANGED <<network, client>>

NextApply ==
  \E b \in ApplyBodies : \E ran \in 0..Len(TemplateTitles(b.templateId)) :
     ApplyTemplate(b, ran)
          /\ UNCHANGED <<network, client>>

\* templates made, deleted and applied on a database that holds saved rows
SpecTemplates == InitSaved /\ [][NextRoutines \/ NextApply]_vars

\* A saved database that also holds a template with two titles, on which the
\* client only toggles, deletes and applies.
SavedTemplate == [id |-> 1, name |-> "Morning"]
SavedTemplateTasks ==
  {[id |-> 1, template_id |-> 1, title |-> "Stretch"],
   [id |-> 2, template_id |-> 1, title |-> "Hydrate"]}

InitStocked ==
  /\ entries = {SavedEntry}
  /\ targets = {SavedTarget}
  /\ tasks = {SavedTask}
  /\ routine_templates = {SavedTemplate}
  /\ routine_template_tasks = SavedTemplateTasks
  /\ sqlite_sequence =
       [t \in Tables |-> IF t = "routine_template_tasks" THEN 2 ELSE 1]
  /\ allocated =
       [t \in Tables |-> IF t = "routine_template_tasks" THEN {1, 2} ELSE {1}]
  /\ supplied =
       [d \in JournalDates |-> IF d = SavedEntry.date THEN SavedEntry.image_data ELSE Null]
  /\ last = NoRequest
  /\ NoClient

NextStocked ==
  \/ \E id \in 1..(MaxTargetId + 1), b \in CompletedBodies, fails \in BOOLEAN :
        PatchTargets(id, b, fails)
          /\ UNCHANGED <<network, client>>
  \/ \E id \in 1..(MaxTargetId + 1), fails \in BOOLEAN : DeleteTargets(id, fails)
          /\ UNCHANGED <<network, client>>
  \/ \E id \in 1..(MaxTaskId + 1), b \in CompletedBodies, fails \in BOOLEAN :
        PatchTasks(id, b, fails)
          /\ UNCHANGED <<network, client>>
  \/ \E id \in 1..(MaxTaskId + 1), fails \in BOOLEAN : DeleteTasks(id, fails)
          /\ UNCHANGED <<network, client>>
  \/ \E id \in 1..(MaxTemplateId + 1), fails \in BOOLEAN : DeleteRoutineTemplates(id, fails)
          /\ UNCHANGED <<network, client>>
  \/ NextApply

SpecStocked == InitStocked /\ [][NextStocked]_vars

\* Templates made with either name or without a name, with and without a
\* title, and deleted, on a new database.
NameBodies == [name : Names \cup {Undefined}, tasks : {<<>>, <<"Hydrate">>}]

NextNames ==
  \/ GetRoutineTemplates /\ UNCHANGED <<network, client>>
  \/ \E b \in NameBodies : \E ran \in 0..(1 + Len(BodyTitles(b))) :
        PostRoutineTemplates(b, ran) /\ UNCHANGED <<network, client>>
  \/ \E id \in 1..MaxTemplateId, fails \in BOOLEAN :
        DeleteRoutineTemplates(id, fails) /\ UNCHANGED <<network, client>>

SpecNames == Init /\ [][NextNames]_vars

\* The JSON values a PATCH body carries as `completed`: booleans, a missing
\* field, null, numbers and strings.
FlagBodies ==
  [completed : {"true", "false", "undefined", "null", "0", "2", "\"\"", "\"no\""}]

\* every way a row of targets or tasks is made or gets its flag written, on the
\* stocked database; the rows are made in the period and on the date of the
\* saved rows, and the flags of rows that exist are written
NextFlags ==
  \/ \E b \in TargetBodies, fails \in BOOLEAN :
        b.type = SavedTarget.type /\ b.period_key = SavedTarget.period_key
          /\ PostTargets(b, fails)
          /\ UNCHANGED <<network, client>>
  \/ \E b \in TaskBodies, fails \in BOOLEAN :
        b.date = SavedTask.date /\ PostTasks(b, fails)
          /\ UNCHANGED <<network, client>>
  \/ \E id \in Ids(targets), b \in FlagBodies, fails \in BOOLEAN :
        PatchTargets(id, b, fails)
          /\ UNCHANGED <<network, client>>
  \/ \E id \in Ids(tasks), b \in FlagBodies, fails \in BOOLEAN :
        PatchTasks(id, b, fails)
          /\ UNCHANGED <<network, client>>
  \/ \E b \in ApplyBodies : \E ran \in 0..Len(TemplateTitles(b.templateId)) :
        b.date = SavedTask.date /\ b.templateId = SavedTemplate.id
          /\ ApplyTemplate(b, ran)
          /\ UNCHANGED <<network, client>>

SpecFlags == InitStocked /\ [][NextFlags]_vars

\* The whole API on a new database.  The handlers of one resource touch no
\* table of another, so a run is bounded to writing one resource: the requests
\* of a resource are taken while the other tables have handed out no rowid.
Idle(others) == \A t \in others : sqlite_sequence[t] = 0
OnlyEntries == Idle(Tables \ {"entries"})
OnlyTargets == Idle(Tables \ {"targets"})
OnlyTasks == Idle(Tables \ {"tasks"})
OnlyRoutines == Idle(Tables \ {"routine_templates", "routine_template_tasks"})

Next ==
  \/ \E d \in Dates : OnlyEntries /\ GetEntry(d)
          /\ UNCHANGED <<network, client>>
  \/ \E b \in EntryBodies, fails \in BOOLEAN : OnlyEntries /\ PostEntries(b, fails)
          /\ UNCHANGED <<network, client>>
  \/ \E p \in PeriodKeys : OnlyTargets /\ GetTargets(p)
          /\ UNCHANGED <<network, client>>
  \/ \E b \in TargetBodies, fails \in BOOLEAN : OnlyTargets /\ PostTargets(b, fails)
          /\ UNCHANGED <<network, client>>
  \/ \E id \in 1..(MaxTargetId + 1), b \in CompletedBodies, fails \in BOOLEAN :
        OnlyTargets /\ PatchTargets(id, b, fails)
          /\ UNCHANGED <<network, client>>
  \/ \E id \in 1..(MaxTargetId + 1), fails \in BOOLEAN :
        OnlyTargets /\ DeleteTargets(id, fails)
          /\ UNCHANGED <<network, client>>
  \/ \E d \in Dates : OnlyTasks /\ GetTasks(d)
          /\ UNCHANGED <<network, client>>
  \/ \E b \in TaskBodies, fails \in BOOLEAN : OnlyTasks /\ PostTasks(b, fails)
          /\ UNCHANGED <<network, client>>
  \/ \E id \in 1..(MaxTaskId + 1), b \in CompletedBodies, fails \in BOOLEAN :
        OnlyTasks /\ PatchTasks(id, b, fails)
          /\ UNCHANGED <<network, client>>
  \/ \E id \in 1..(MaxTaskId + 1), fails \in BOOLEAN : OnlyTasks /\ DeleteTasks(id, fails)
          /\ UNCHANGED <<network, client>>
  \/ OnlyRoutines /\ GetRoutineTemplates
          /\ UNCHANGED <<network, client>>
  \/ \E b \in TemplateBodies : \E ran \in 0..(1 + Len(BodyTitles(b))) :
        OnlyRoutines /\ PostRoutineTemplates(b, ran)
          /\ UNCHANGED <<network, client>>
  \/ \E id \in 1..(MaxTemplateId + 1), fails \in BOOLEAN :
        OnlyRoutines /\ DeleteRoutineTemplates(id, fails)
          /\ UNCHANGED <<network, client>>

Spec == Init /\ [][Next]_vars

-----------------------------------------------------------------------------
(* The Gemini service of the page.  An answer of ai.models.generateContent  *)
(* is whatever the remote model sends, or an exception.                     *)

\* longest list of entries the service is called with
MaxHistory == 3

\* `data:image/png;base64,${part.inlineData.data}`
DataUrl(data) == IF data = "A" THEN "data:image/png;base64,A" ELSE "data:image/png;base64,B"

\* answers to the image request: an exception, no candidates (the `|| []`),
\* parts without inlineData, parts of which some carry inlineData
ImageResponses ==
  {[threw |-> TRUE, parts |-> <<>>],
   [threw |-> FALSE, parts |-> <<>>],
   [threw |-> FALSE, parts |-> <<[inlineData |-> Undefined]>>],
   [threw |-> FALSE, parts |-> <<[inlineData |-> Undefined], [inlineData |-> "A"]>>],
   [threw |-> FALSE, parts |-> <<[inlineData |-> "B"], [inlineData |-> "A"]>>]}

\* the for loop over the parts: the data of the first part that has inlineData
RECURSIVE FirstInlineData(_)
FirstInlineData(parts) ==
  IF parts = <<>> THEN Undefined
  ELSE IF parts[1].inlineData # Undefined THEN parts[1].inlineData
  ELSE FirstInlineData(Tail(parts))

\* what an async function hands its caller
Fulfilled(v) == [settled |-> "fulfilled", value |-> v]
Rejected == [settled |-> "rejected"]

\* generateDailyImage: the whole body is inside the try, the catch logs
GenerateDailyImage(summary, mood, titles, response) ==
  IF response.threw THEN Fulfilled(Null)
  ELSE LET data == FirstInlineData(response.parts)
       IN  IF data = Undefined THEN Fulfilled(Null) ELSE Fulfilled(DataUrl(data))

\* the JSON texts the model knows, and the value JSON.parse makes of each
AnalysisText == "{\"analysis\":\"calm\",\"inquiryQuestions\":[\"why\"]}"
JsonTexts == {"{}", "null", AnalysisText, BlankReflection}

\* JSON.parse(text): the value, or a SyntaxError (undefined reads "undefined")
JsonParse(text) ==
  IF text \notin JsonTexts THEN [threw |-> TRUE]
  ELSE [threw |-> FALSE,
        value |-> CASE text = "{}" -> [type |-> "object"]
                    [] text = "null" -> JsNull
                    [] OTHER -> [type |-> "object", analysis |-> "calm",
                                 inquiryQuestions |-> <<"why">>]]

\* a || b on strings
OrElse(a, b) == IF a \in {Null, Undefined, ""} THEN b ELSE a

\* answers to the analysis request: an exception, no text, text that is not
\* JSON, JSON
AnalysisResponses ==
  {[threw |-> TRUE, text |-> Undefined],
   [threw |-> FALSE, text |-> Undefined],
   [threw |-> FALSE, text |-> "I cannot help with that"],
   [threw |-> FALSE, text |-> AnalysisText]}

\* analyzePatterns: entries.map with its JSON.parse runs before the try, the
\* request and the JSON.parse of the answer inside it
AnalyzePatterns(list, response) ==
  IF \E i \in 1..Len(list) : JsonParse(OrElse(list[i].reflection_json, "{}")).threw
  THEN Rejected
  ELSE IF response.threw \/ JsonParse(response.text).threw THEN Fulfilled(JsNull)
  ELSE Fulfilled(JsonParse(response.text).value)

\* the entries the service is called with: rows as GET /api/entries lists them,
\* whose reflection_json is null, empty, JSON, or text that is not JSON
HistoryEntry(id, reflection) ==
  [SavedEntry EXCEPT !.id = id, !.reflection_json = reflection]

RECURSIVE Histories(_)
Histories(n) ==
  IF n = 0 THEN {<<>>}
  ELSE Histories(n - 1) \cup
       {Append(h, HistoryEntry(n, x)) :
          h \in {g \in Histories(n - 1) : Len(g) = n - 1},
          x \in {Null, "", "{}", "hello"}}

\* a call of the service with any arguments and any answer of the remote model
CallGenerateDailyImage(summary, mood, titles, response) ==
  /\ gemini' = [fn |-> "generateDailyImage", summary |-> summary, mood |-> mood,
                titles |-> titles, response |-> response,
                result |-> GenerateDailyImage(summary, mood, titles, response)]
  /\ UNCHANGED views
  /\ UNCHANGED <<store, sqlite_sequence, hist, last, network, entry, userSaved,
                 isGeneratingImage, generating, insights, analysis, isAnalyzing,
                 analyzing>>

CallAnalyzePatterns(list, response) ==
  /\ gemini' = [fn |-> "analyzePatterns", entries |-> list, response |-> response,
                result |-> AnalyzePatterns(list, response)]
  /\ UNCHANGED views
  /\ UNCHANGED <<store, sqlite_sequence, hist, last, network, entry, userSaved,
                 isGeneratingImage, generating, insights, analysis, isAnalyzing,
                 analyzing>>

NextGemini ==
  \/ \E summary \in Versions, mood \in {"", "Joyful"}, titles \in TitleSeqs,
        response \in ImageResponses :
        CallGenerateDailyImage(summary, mood, titles, response)
  \/ \E list \in Histories(MaxHistory), response \in AnalysisResponses :
        CallAnalyzePatterns(list, response)

SpecGemini == Init /\ [][NextGemini]_vars

-----------------------------------------------------------------------------
(* Saves that race.  The page sends a POST /api/entries for every edit and  *)
(* does not wait for the answer of the one before; express hands the        *)
(* requests that have arrived to the handler one at a time, in an order the *)
(* senders do not control.                                                  *)

\* the saves that race: either text, complete or without the mood, with
\* either image or none, for the first date; and a save for the other date
RacingBodies ==
  {b \in EntryBodies :
     \/ b.date = "2024-01-01" /\ b.journal_text # Undefined /\ b.sleep_start # Undefined
          /\ b.sleep_end # Undefined /\ b.reflection_json # Undefined
     \/ b = EntryBody("2024-02-02", "bye", "sleep_end", Undefined)}

\* a POST /api/entries on its way, with the function that awaits its answer
PostEntriesRequest(b, by) == [op |-> "POST /api/entries", body |-> b, by |-> by]

\* fetch('/api/entries', {method: 'POST', body}): the request is on its way
SendPostEntries(b) ==
  /\ BagCardinality(requests) + sqlite_sequence["entries"] < MaxEntryId
  /\ requests' = requests (+) SetToBag({PostEntriesRequest(b, "saveEntry")})
  /\ UNCHANGED <<store, sqlite_sequence, hist, last, handled, client>>

\* express runs the handler of one of the requests that have arrived; the
\* answer, whatever its status, resolves the fetch of the sender, and
\* handleGenerateImage is the one sender with code after its await
HandlePostEntries(r, fails) ==
  /\ BagIn(r, requests)
  /\ r.op = "POST /api/entries"
  /\ PostEntries(r.body, fails)
  /\ requests' = requests (-) SetToBag({r})
  /\ handled' = IF fails THEN handled ELSE Append(handled, r)
  /\ generating' = IF r.by = "handleGenerateImage"
                   THEN [generating EXCEPT !.pc = "answered"] ELSE generating
  /\ UNCHANGED views
  /\ UNCHANGED <<entry, userSaved, isGeneratingImage, insights, analysis,
                 isAnalyzing, analyzing, gemini>>

NextRacing ==
  \/ \E b \in RacingBodies : SendPostEntries(b)
  \/ \E r \in BagToSet(requests), fails \in BOOLEAN : HandlePostEntries(r, fails)
  \/ \E d \in Dates : GetEntry(d) /\ UNCHANGED <<network, client>>

SpecRacing == Init /\ [][NextRacing]_vars

-----------------------------------------------------------------------------
(* The day view.  A handler of the page runs to its next await; what it     *)
(* reads of the state is what the render it was made in saw.                *)

\* the entry fetchDailyData sets for a date the server has no entry of
BlankEntry(d) ==
  [date |-> d, journal_text |-> "", mood |-> "", sleep_start |-> "22:00",
   sleep_end |-> "07:00", reflection_json |-> BlankReflection,
   image_data |-> Undefined]

\* the entry fetchDailyData sets from the row the server answers (the id, which
\* no handler reads, is left out)
LoadedEntry(row) ==
  [date |-> row.date, journal_text |-> row.journal_text, mood |-> row.mood,
   sleep_start |-> row.sleep_start, sleep_end |-> row.sleep_end,
   reflection_json |-> row.reflection_json, image_data |-> row.image_data]

\* the page has loaded a day of the saved database: the day of the saved
\* entry, or the day that has none
InitDay ==
  /\ SavedStore
  /\ IdlePage
  /\ loading = FALSE
  /\ fetching = EmptyBag
  /\ \E d \in Dates :
        /\ selectedDate = d
        /\ entry = IF d = SavedEntry.date THEN LoadedEntry(SavedEntry) ELSE BlankEntry(d)
        /\ dayTasks = SeqById({r \in {SavedTask} : r.date = d})

\* saveEntry of the render that saw `seen`: setEntry({...seen, ...update}) and
\* the POST of that object, up to the await
SaveEntry(seen, field, value, by) ==
  LET newEntry == [seen EXCEPT ![field] = value]
  IN  /\ BagCardinality(requests) + sqlite_sequence["entries"] < MaxEntryId
      /\ entry' = newEntry
      /\ requests' = requests (+) SetToBag({PostEntriesRequest(newEntry, by)})

\* the user edits a field: onChange / onClick call saveEntry of the current render
Edit(field, value) ==
  /\ SaveEntry(entry, field, value, "saveEntry")
  /\ userSaved' = entry'
  /\ UNCHANGED views
  /\ UNCHANGED <<store, sqlite_sequence, hist, last, handled, isGeneratingImage,
                 generating, insights, analysis, isAnalyzing, analyzing, gemini>>

\* handleGenerateImage up to `await generateDailyImage(...)`; the button is
\* disabled while isGeneratingImage or without journal text
HandleGenerateImage ==
  /\ ~isGeneratingImage
  /\ entry.journal_text \notin {Undefined, Null, ""}
  /\ isGeneratingImage' = TRUE
  /\ generating' = [pc |-> "ai", entry |-> entry]
  /\ UNCHANGED views
  /\ UNCHANGED <<store, sqlite_sequence, hist, last, network, entry, userSaved,
                 insights, analysis, isAnalyzing, analyzing, gemini>>

\* mutant: the image is saved whatever generateDailyImage returned
GenerateImageReturnsAndSaves(titles, response) ==
  LET seen == generating.entry
      result == GenerateDailyImage(seen.journal_text, seen.mood, titles, response)
  IN  /\ generating.pc = "ai"
      /\ gemini' = [fn |-> "generateDailyImage", result |-> result]
      /\ SaveEntry(seen, "image_data", result.value, "handleGenerateImage")
      /\ generating' = [generating EXCEPT !.pc = "save"]
      /\ UNCHANGED views
      /\ UNCHANGED <<store, sqlite_sequence, hist, last, handled, userSaved,
                     isGeneratingImage, insights, analysis, isAnalyzing, analyzing>>

\* handleGenerateImage from the answer of generateDailyImage to its next
\* await: with an image, the saveEntry of the render the handler was made in;
\* without, setIsGeneratingImage(false)
GenerateImageReturns(titles, response) ==
  LET seen == generating.entry
      result == GenerateDailyImage(seen.journal_text, seen.mood, titles, response)
  IN  /\ generating.pc = "ai"
      /\ gemini' = [fn |-> "generateDailyImage", result |-> result]
      /\ IF result.value # Null
         THEN /\ SaveEntry(seen, "image_data", result.value, "handleGenerateImage")
              /\ generating' = [generating EXCEPT !.pc = "save"]
              /\ UNCHANGED isGeneratingImage
         ELSE /\ isGeneratingImage' = FALSE
              /\ generating' = [pc |-> "idle"]
              /\ UNCHANGED <<entry, requests>>
      /\ UNCHANGED views
      /\ UNCHANGED <<store, sqlite_sequence, hist, last, handled, userSaved,
                     insights, analysis, isAnalyzing, analyzing>>

\* handleGenerateImage after `await saveEntry(...)`
GenerateImageDone ==
  /\ generating.pc = "answered"
  /\ isGeneratingImage' = FALSE
  /\ generating' = [pc |-> "idle"]
  /\ UNCHANGED views
  /\ UNCHANGED <<store, sqlite_sequence, hist, last, network, entry, userSaved,
                 insights, analysis, isAnalyzing, analyzing, gemini>>

\* the server is not reached: fetch rejects, and so does the handler that
\* awaits it, which runs no further
FetchRejects(r) ==
  /\ BagIn(r, requests)
  /\ requests' = requests (-) SetToBag({r})
  /\ generating' = IF r.by = "handleGenerateImage" THEN [pc |-> "idle"] ELSE generating
  /\ UNCHANGED views
  /\ UNCHANGED <<store, sqlite_sequence, hist, last, handled, entry, userSaved,
                 isGeneratingImage, insights, analysis, isAnalyzing, analyzing,
                 gemini>>

NextDay ==
  \/ \E value \in Versions : Edit("journal_text", value)
  \/ HandleGenerateImage
  \/ \E titles \in TitleSeqs, response \in ImageResponses :
        GenerateImageReturns(titles, response)
  \/ GenerateImageDone
  \/ \E r \in BagToSet(requests), fails \in BOOLEAN : HandlePostEntries(r, fails)
  \/ \E r \in BagToSet(requests) : FetchRejects(r)

SpecDay == InitDay /\ [][NextDay]_vars

-----------------------------------------------------------------------------
(* The day view while the user moves between days.  Every change of         *)
(* selectedDate runs the effect, which calls fetchDailyData of the new      *)
(* render; a call sends its two GETs at once and sets the entry and the     *)
(* tasks when both are answered.  Nothing cancels a call, and the answers   *)
(* of different calls come back in any order.                               *)

\* the calls of fetchDailyData that may be in flight together
MaxFetches == 2
\* the edits of the user in a run
MaxEdits == 1

\* one of the two fetches of a call: on its way, or answered with the JSON
NotAnswered(empty) == [state |-> "pending", json |-> empty]
Answered(json) == [state |-> "answered", json |-> json]

\* a call of fetchDailyData by the render of date d, up to its await
FetchDailyData(d) ==
  [date |-> d, entryRes |-> NotAnswered(JsNull), tasksRes |-> NotAnswered(<<>>)]

\* the page has just been mounted on the saved database: the effect of the
\* first render has called fetchDailyData for today
InitDates ==
  /\ SavedStore
  /\ IdlePage
  /\ entry = NoEntry
  /\ dayTasks = <<>>
  /\ \E d \in Dates :
        /\ selectedDate = d
        /\ loading = TRUE
        /\ fetching = SetToBag({FetchDailyData(d)})

\* a button next to the date: setSelectedDate, and the effect of the render
\* that follows calls fetchDailyData, which starts with setLoading(true)
SetSelectedDate(d) ==
  /\ d # selectedDate
  /\ BagCardinality(fetching) < MaxFetches
  /\ selectedDate' = d
  /\ loading' = TRUE
  /\ fetching' = fetching (+) SetToBag({FetchDailyData(d)})
  /\ UNCHANGED <<store, sqlite_sequence, hist, last, network, entry, userSaved,
                 isGeneratingImage, generating, insights, analysis, isAnalyzing,
                 analyzing, gemini, dayTasks, type, shownTargets, now>>

\* express answers the GET /api/entries/:date of a call
HandleGetEntry(f) ==
  /\ BagIn(f, fetching)
  /\ f.entryRes.state = "pending"
  /\ GetEntry(f.date)
  /\ fetching' = (fetching (-) SetToBag({f})) (+)
        SetToBag({[f EXCEPT !.entryRes =
                     Answered(IF \E r \in entries : r.date = f.date
                              THEN last'.json ELSE JsNull)]})
  /\ UNCHANGED <<network, entry, userSaved, isGeneratingImage, generating, insights,
                 analysis, isAnalyzing, analyzing, gemini, selectedDate, dayTasks,
                 loading, type, shownTargets, now>>

\* express answers the GET /api/tasks/:date of a call
HandleGetTasks(f) ==
  /\ BagIn(f, fetching)
  /\ f.tasksRes.state = "pending"
  /\ GetTasks(f.date)
  /\ fetching' = (fetching (-) SetToBag({f})) (+)
        SetToBag({[f EXCEPT !.tasksRes = Answered(last'.json)]})
  /\ UNCHANGED <<network, entry, userSaved, isGeneratingImage, generating, insights,
                 analysis, isAnalyzing, analyzing, gemini, selectedDate, dayTasks,
                 loading, type, shownTargets, now>>

\* fetchDailyData after its await, both fetches answered: setEntry of the row
\* or of the blank entry of the call's date, setTasks, and setLoading(false)
FetchDailyDataSettles(f) ==
  /\ BagIn(f, fetching)
  /\ f.entryRes.state = "answered" /\ f.tasksRes.state = "answered"
  /\ entry' = IF f.entryRes.json = JsNull THEN BlankEntry(f.date)
              ELSE LoadedEntry(f.entryRes.json)
  /\ dayTasks' = f.tasksRes.json
  /\ loading' = FALSE
  /\ fetching' = fetching (-) SetToBag({f})
  /\ UNCHANGED <<store, sqlite_sequence, hist, last, network, userSaved,
                 isGeneratingImage, generating, insights, analysis, isAnalyzing,
                 analyzing, gemini, selectedDate, type, shownTargets, now>>

\* the user moves between days, and types into the journal of the day shown
\* when every call has settled
NextDates ==
  \/ \E d \in Dates : SetSelectedDate(d)
  \/ \E f \in BagToSet(fetching) : HandleGetEntry(f)
  \/ \E f \in BagToSet(fetching) : HandleGetTasks(f)
  \/ \E f \in BagToSet(fetching) : FetchDailyDataSettles(f)
  \/ \E value \in Versions :
        /\ fetching = EmptyBag
        /\ Len(handled) + BagCardinality(requests) < MaxEdits
        /\ Edit("journal_text", value)
  \/ \E r \in BagToSet(requests) : HandlePostEntries(r, FALSE)

SpecDates == InitDates /\ [][NextDates]_vars

-----------------------------------------------------------------------------
(* The targets view.  The list is fetched by the key of the period of the   *)
(* selected type and today's date; the server selects by the key alone, and *)
(* the view keeps the targets of its type.                                  *)

ViewTypes == {"daily", "weekly", "monthly"}

\* getPeriodKey of a render whose type is t, called on day n of 2024
GetPeriodKey(t, n) ==
  LET date == DayOfYear(2024, n)
  IN  IF t = "daily" THEN Format(date, "yyyy-MM-dd")
      ELSE IF t = "weekly" THEN Format(StartOfWeek(date), "yyyy-ww")
      ELSE Format(date, "yyyy-MM")

\* data.filter(t => t.type === type)
FilterByType(data, t) == SelectSeq(data, LAMBDA x : x.type = t)

\* fetchTargets of a render whose type is t, up to its await: the GET is on
\* its way
FetchTargets(t) ==
  [op |-> "GET /api/targets/:period", period |-> GetPeriodKey(t, now), type |-> t,
   by |-> "fetchTargets"]

\* the targets tab is opened on a new database: the view is mounted with its
\* useState initial values and its effect calls fetchTargets
InitTargets ==
  /\ entries = {}
  /\ targets = {}
  /\ tasks = {}
  /\ routine_templates = {}
  /\ routine_template_tasks = {}
  /\ sqlite_sequence = [t \in Tables |-> 0]
  /\ allocated = [t \in Tables |-> {}]
  /\ supplied = [d \in JournalDates |-> Null]
  /\ last = NoRequest
  /\ handled = <<>>
  /\ entry = NoEntry
  /\ userSaved = NoEntry
  /\ isGeneratingImage = FALSE
  /\ generating = [pc |-> "idle"]
  /\ insights = <<>>
  /\ analysis = JsNull
  /\ isAnalyzing = FALSE
  /\ analyzing = [pc |-> "idle"]
  /\ gemini = [fn |-> "none"]
  /\ selectedDate = "2024-01-01"
  /\ dayTasks = <<>>
  /\ loading = FALSE
  /\ fetching = EmptyBag
  /\ type = "daily"
  /\ shownTargets = <<>>
  /\ now = Today
  /\ requests = SetToBag({FetchTargets("daily")})

\* what no step of the targets view changes
BesidesTargetsView ==
  <<entries, tasks, routine_templates, routine_template_tasks, supplied, handled,
    entry, userSaved, isGeneratingImage, generating, insights, analysis,
    isAnalyzing, analyzing, gemini, selectedDate, dayTasks, loading, fetching>>

\* time passes to the next day of the clock
Tick ==
  /\ \E i \in 1..(Len(ClockDays) - 1) : now = ClockDays[i] /\ now' = ClockDays[i + 1]
  /\ UNCHANGED <<store, sqlite_sequence, hist, last, network, type, shownTargets>>
  /\ UNCHANGED BesidesTargetsView

\* a click on one of the three type buttons: setType, and the effect of the
\* render that follows calls fetchTargets
SetType(t) ==
  /\ t # type
  /\ BagCardinality(requests) < MaxFetches
  /\ type' = t
  /\ requests' = requests (+) SetToBag({FetchTargets(t)})
  /\ UNCHANGED <<store, sqlite_sequence, hist, last, shownTargets, now>>
  /\ UNCHANGED BesidesTargetsView

\* express answers the GET of a fetchTargets call, which sets the list to the
\* targets of the type of the render it was called in
HandleGetTargets(r) ==
  /\ BagIn(r, requests)
  /\ r.op = "GET /api/targets/:period"
  /\ GetTargets(r.period)
  /\ requests' = requests (-) SetToBag({r})
  /\ shownTargets' = FilterByType(last'.json, r.type)
  /\ UNCHANGED <<type, now>>
  /\ UNCHANGED BesidesTargetsView

\* the POSTs of addTarget that the server has not answered
PostsOnTheirWay ==
  [r \in {q \in BagToSet(requests) : q.op = "POST /api/targets"} |-> requests[r]]

\* addTarget up to its await: the POST of a target of the selected type, with
\* the key of today's period, is on its way
AddTarget(title) ==
  /\ BagCardinality(requests) < MaxFetches
  /\ sqlite_sequence["targets"] + BagCardinality(PostsOnTheirWay) < MaxTargetId
  /\ requests' = requests (+)
       SetToBag({[op |-> "POST /api/targets",
                  body |-> [type |-> type, title |-> title,
                            period_key |-> GetPeriodKey(type, now)],
                  type |-> type, by |-> "addTarget"]})
  /\ UNCHANGED <<store, sqlite_sequence, hist, last, type, shownTargets, now>>
  /\ UNCHANGED BesidesTargetsView

\* express answers the POST of addTarget, with success or not, and addTarget
\* goes on to call the fetchTargets of its render
HandlePostTargets(r, fails) ==
  /\ BagIn(r, requests)
  /\ r.op = "POST /api/targets"
  /\ PostTargets(r.body, fails)
  /\ requests' = (requests (-) SetToBag({r})) (+) SetToBag({FetchTargets(r.type)})
  /\ UNCHANGED <<type, shownTargets, now>>
  /\ UNCHANGED <<handled, entry, userSaved, isGeneratingImage, generating, insights,
                 analysis, isAnalyzing, analyzing, gemini, selectedDate, dayTasks,
                 loading, fetching>>

NextTargets ==
  \/ Tick
  \/ \E t \in ViewTypes : SetType(t)
  \/ \E r \in BagToSet(requests) : HandleGetTargets(r)
  \/ AddTarget("Stretch")
  \/ \E r \in BagToSet(requests), fails \in BOOLEAN : HandlePostTargets(r, fails)

SpecTargets == InitTargets /\ [][NextTargets]_vars

-----------------------------------------------------------------------------
(* The insights view, on a journal that is being written.                   *)

\* saves of a journal day: complete, without image, the reflection JSON or not
JournalBodies ==
  {[EntryBody(d, "hello", "none", Undefined) EXCEPT !.reflection_json = x] :
     d \in JournalDates, x \in {"{}", "hello"}}

\* the insights tab is opened: the view is mounted with its useState initial
\* values and its effect sends GET /api/entries
MountInsightsView ==
  /\ analyzing.pc = "idle"
  /\ requests = EmptyBag
  /\ insights' = <<>>
  /\ analysis' = JsNull
  /\ isAnalyzing' = FALSE
  /\ requests' = requests (+) SetToBag({[op |-> "GET /api/entries", by |-> "InsightsView"]})
  /\ UNCHANGED views
  /\ UNCHANGED <<store, sqlite_sequence, hist, last, handled, entry, userSaved,
                 isGeneratingImage, generating, analyzing, gemini>>

\* express runs the handler of the GET; its answer is what setEntries gets
HandleGetEntries(r) ==
  /\ BagIn(r, requests)
  /\ r.op = "GET /api/entries"
  /\ GetEntries
  /\ requests' = requests (-) SetToBag({r})
  /\ insights' = last'.json
  /\ UNCHANGED views
  /\ UNCHANGED <<handled, entry, userSaved, isGeneratingImage, generating, analysis,
                 isAnalyzing, analyzing, gemini>>

\* handleAnalyze up to `await analyzePatterns(entries)`; the button is disabled
\* while isAnalyzing or with fewer than three entries
HandleAnalyze ==
  /\ ~isAnalyzing
  /\ Len(insights) >= 3
  /\ isAnalyzing' = TRUE
  /\ analyzing' = [pc |-> "ai"]
  /\ UNCHANGED views
  /\ UNCHANGED <<store, sqlite_sequence, hist, last, network, entry, userSaved,
                 isGeneratingImage, generating, insights, analysis, gemini>>

\* handleAnalyze after the await: with a result, setAnalysis and
\* setIsAnalyzing(false); when analyzePatterns rejected, the await throws and
\* the handler runs no further
AnalyzeReturns(response) ==
  LET result == AnalyzePatterns(insights, response)
  IN  /\ analyzing.pc = "ai"
      /\ analyzing' = [pc |-> "idle"]
      /\ gemini' = [fn |-> "analyzePatterns", result |-> result]
      /\ IF result.settled = "fulfilled"
         THEN analysis' = result.value /\ isAnalyzing' = FALSE
         ELSE UNCHANGED <<analysis, isAnalyzing>>
      /\ UNCHANGED views
      /\ UNCHANGED <<store, sqlite_sequence, hist, last, network, entry, userSaved,
                     isGeneratingImage, generating, insights>>

NextJournal ==
  \/ \E b \in JournalBodies, fails \in BOOLEAN :
        PostEntries(b, fails) /\ UNCHANGED <<network, client>>
  \/ MountInsightsView
  \/ \E r \in BagToSet(requests) : HandleGetEntries(r)
  \/ HandleAnalyze
  \/ \E response \in AnalysisResponses : AnalyzeReturns(response)

SpecJournal == Init /\ [][NextJournal]_vars

-----------------------------------------------------------------------------
(* Properties.                                                              *)

\* the value a request body asks the store to hold: null when it omits the field
Payload(v) == IF v = Undefined THEN Null ELSE v

Saved(op) == last.status = 200 /\ last.req.op = op

\* C1: after every save of POST /api/entries the stored entry of the date holds
\* the five text fields of that save's payload (null for an omitted one), and
\* the image of every stored entry is the last non-null image any save of its
\* date supplied (null when none did).
C1_SaveStoresPayload ==
  /\ Saved("POST /api/entries") =>
       LET b == last.req.body
       IN  \E r \in entries :
             /\ r.date = b.date
             /\ r.journal_text = Payload(b.journal_text)
             /\ r.mood = Payload(b.mood)
             /\ r.sleep_start = Payload(b.sleep_start)
             /\ r.sleep_end = Payload(b.sleep_end)
             /\ r.reflection_json = Payload(b.reflection_json)
  /\ \A r \in entries : r.image_data = supplied[r.date]

\* a save without image and without mood on a date whose stored image is the
\* second image: the image is kept, the mood is overwritten with null
C1_Witness ==
  /\ Saved("POST /api/entries")
  /\ last.req.body.image_data = Undefined
  /\ last.req.body.mood = Undefined
  /\ \E r \in entries :
        /\ r.date = last.req.body.date
        /\ r.image_data = "data:image/png;base64,B"
        /\ r.mood = Null
        /\ r.journal_text = "bye"

\* C2: no two rows of entries have the same date, and a save for a date that
\* has a row keeps that row and its id: every rowid the table ever held is
\* still the id of a row.
C2_OneEntryPerDate ==
  /\ \A r, q \in entries : r.date = q.date => r = q
  /\ allocated["entries"] = Ids(entries)

\* three saves of one date have left one row, the row of the first save
C2_Witness ==
  /\ Saved("POST /api/entries")
  /\ sqlite_sequence["entries"] = 3
  /\ \E r \in entries : entries = {r} /\ r.id = 1


Applied == last.req.op = "POST /api/apply-template"

\* C3: a POST /api/apply-template that is answered with success adds one task
\* row per child row of the template, with the child's title, the date of the
\* request and completed = 0, under rowids no task has, and keeps every task
\* row there was (no title is skipped because the date already has it).
C3_ApplyAddsOneTaskPerTitle ==
  [][(Applied' /\ last'.status = 200) =>
       LET b == last'.req.body
           children == {c \in routine_template_tasks : c.template_id = b.templateId}
           new == tasks' \ tasks
       IN  /\ tasks \subseteq tasks'
           /\ Cardinality(new) = Cardinality(children)
           /\ \A r \in new :
                 r.date = b.date /\ r.completed = 0 /\ r.id \notin Ids(tasks)
           /\ \A t \in Titles :
                 Cardinality({r \in new : r.title = t})
                   = Cardinality({c \in children : c.title = t})]_vars

\* a template of two titles was applied to the date of the saved task, whose
\* title is one of the two: the date now has that title twice
C3_Witness ==
  /\ Applied /\ last.status = 200
  /\ last.req.body.date = SavedTask.date
  /\ SavedTask \in tasks
  /\ \E r, q \in tasks :
        /\ r.date = SavedTask.date /\ q.date = SavedTask.date
        /\ r.id > 1 /\ q.id > 1
        /\ r.title = "Stretch" /\ q.title = "Hydrate"
        /\ r.completed = 0 /\ q.completed = 0

NoOrphans ==
  \A c \in routine_template_tasks : \E t \in routine_templates : t.id = c.template_id

\* C4: every routine_template_tasks row references a routine_templates row
\* that exists, and an apply-template whose templateId names no template adds
\* no task.
C4_NoOrphanedChildren ==
  /\ NoOrphans
  /\ [][/\ NoOrphans'
        /\ (Applied' /\ last'.req.body.templateId \notin Ids(routine_templates))
              => tasks' = tasks]_vars

\* the only template there ever was had children and was deleted; its children
\* are gone, and the template was applied after that
C4_Witness ==
  /\ Applied /\ last.status = 200
  /\ last.req.body.templateId = 1
  /\ allocated["routine_templates"] = {1}
  /\ routine_templates = {}
  /\ allocated["routine_template_tasks"] # {}
  /\ routine_template_tasks = {}

\* C5 (as claimed): apply-template adds all the tasks of the template or none,
\* and delete-template leaves the template and its children or removes both,
\* also when a statement fails.
C5_AllOrNothing ==
  [][/\ Applied' =>
          LET n == Cardinality({c \in routine_template_tasks :
                                  c.template_id = last'.req.body.templateId})
          IN  Cardinality(tasks' \ tasks) \in {0, n}
     /\ last'.req.op = "DELETE /api/routine-templates/:id" =>
          \/ /\ routine_templates' = routine_templates
             /\ routine_template_tasks' = routine_template_tasks
          \/ /\ last'.req.id \notin Ids(routine_templates')
             /\ \A c \in routine_template_tasks' : c.template_id # last'.req.id]_vars

\* C6: POST /api/apply-template, answered with success or not, leaves
\* routine_templates, routine_template_tasks, entries and targets as they were
\* and changes or removes no task row that existed.
C6_ApplyOnlyAddsTasks ==
  [][Applied' =>
       /\ routine_templates' = routine_templates
       /\ routine_template_tasks' = routine_template_tasks
       /\ entries' = entries
       /\ targets' = targets
       /\ tasks \subseteq tasks']_vars

\* an apply added a task to the saved database: the saved entry, target and
\* completed task are there as saved
C6_Witness ==
  /\ Applied /\ last.status = 200
  /\ \E r \in tasks : r.id = sqlite_sequence["tasks"] /\ r.id > 1 /\ r.date = SavedTask.date
  /\ SavedTask \in tasks
  /\ entries = {SavedEntry}
  /\ targets = {SavedTarget}
  /\ routine_template_tasks # {}

PatchedTasks == last.req.op = "PATCH /api/tasks/:id"
PatchedTargets == last.req.op = "PATCH /api/targets/:id"

\* the same row but for its completed flag
SameButCompleted(r, q) == [r EXCEPT !.completed = 0] = [q EXCEPT !.completed = 0]

\* C7: a PATCH of a task or target that is answered with success leaves the
\* row of that id with completed = 1 when the body says true and 0 when it says
\* false, changes no other field of the row, no other row and no other table;
\* and a PATCH that repeats the request before it changes nothing at all.
C7_PatchIsIdempotent ==
  [][/\ (PatchedTasks' /\ last'.status = 200) =>
          /\ \A q \in tasks' : q.id = last'.req.id =>
                q.completed = (IF last'.req.body.completed = "true" THEN 1 ELSE 0)
          /\ Ids(tasks') = Ids(tasks)
          /\ \A r \in tasks : \E q \in tasks' :
                /\ q.id = r.id /\ SameButCompleted(r, q)
                /\ r.id # last'.req.id => q = r
          /\ UNCHANGED <<entries, targets, routine_templates, routine_template_tasks>>
     /\ (PatchedTargets' /\ last'.status = 200) =>
          /\ \A q \in targets' : q.id = last'.req.id =>
                q.completed = (IF last'.req.body.completed = "true" THEN 1 ELSE 0)
          /\ Ids(targets') = Ids(targets)
          /\ \A r \in targets : \E q \in targets' :
                /\ q.id = r.id /\ SameButCompleted(r, q)
                /\ r.id # last'.req.id => q = r
          /\ UNCHANGED <<entries, tasks, routine_templates, routine_template_tasks>>
     /\ ((PatchedTasks' \/ PatchedTargets')
           /\ last.status = 200 /\ last'.status = 200
           /\ last.req.op = last'.req.op /\ last.req.id = last'.req.id
           /\ last.req.body.completed = last'.req.body.completed) =>
          UNCHANGED store]_vars

\* the second of two targets was patched to completed: it is 1, the first is 0
C7_Witness ==
  /\ PatchedTargets /\ last.status = 200
  /\ last.req.id = 2 /\ last.req.body.completed = "true"
  /\ \E r, q \in targets :
        /\ r.id = 1 /\ r.completed = 0
        /\ q.id = 2 /\ q.completed = 1 /\ q.type = "weekly" /\ q.period_key = "2024-02"

\* C8: GET /api/entries/:date, GET /api/tasks/:date and GET /api/targets/:period
\* are answered 200 and change no table; the answer is null when no entry has
\* the date, and the empty list when no task has the date or no target the
\* period key.
C8_ReadsFindNothingQuietly ==
  [][/\ last'.req.op = "GET /api/entries/:date" =>
          /\ last'.status = 200 /\ UNCHANGED <<store, sqlite_sequence>>
          /\ (\A r \in entries : r.date # last'.req.date) => last'.json = Null
     /\ last'.req.op = "GET /api/tasks/:date" =>
          /\ last'.status = 200 /\ UNCHANGED <<store, sqlite_sequence>>
          /\ (\A r \in tasks : r.date # last'.req.date) => last'.json = <<>>
     /\ last'.req.op = "GET /api/targets/:period" =>
          /\ last'.status = 200 /\ UNCHANGED <<store, sqlite_sequence>>
          /\ (\A r \in targets : r.period_key # last'.req.period) => last'.json = <<>>]_vars

\* tasks of one date are stored and the tasks of the other date were read
C8_Witness ==
  /\ last.req.op = "GET /api/tasks/:date" /\ last.status = 200
  /\ tasks # {}
  /\ \A r \in tasks : r.date # last.req.date
  /\ last.json = <<>>

\* C9: a DELETE or PATCH of a target or task, or a DELETE of a template, whose
\* id no row has, and an apply-template whose templateId has no child row, are
\* answered with success and change no table.
C9_NoMatchIsNoOp ==
  [][/\ (last'.req.op \in {"DELETE /api/targets/:id", "PATCH /api/targets/:id"}
           /\ last'.req.id \notin Ids(targets))
          => (last'.status = 200 /\ UNCHANGED <<store, sqlite_sequence>>)
     /\ (last'.req.op \in {"DELETE /api/tasks/:id", "PATCH /api/tasks/:id"}
           /\ last'.req.id \notin Ids(tasks))
          => (last'.status = 200 /\ UNCHANGED <<store, sqlite_sequence>>)
     /\ (last'.req.op = "DELETE /api/routine-templates/:id"
           /\ last'.req.id \notin Ids(routine_templates))
          => (last'.status = 200 /\ UNCHANGED <<store, sqlite_sequence>>)
     /\ (Applied' /\ \A c \in routine_template_tasks :
                        c.template_id # last'.req.body.templateId)
          => (last'.status = 200 /\ UNCHANGED <<store, sqlite_sequence>>)]_vars

\* a PATCH named an id no task ever had, while tasks are stored
C9_Witness ==
  /\ PatchedTasks /\ last.status = 200
  /\ last.req.id \notin allocated["tasks"]
  /\ Cardinality(tasks) >= 2

\* C10: a POST of a target, task or template that is answered with success
\* answers the id of a row it added, which holds the fields of the body, and no
\* row of that table had that id before, the deleted rows included.
C10_NewIdsAreNew ==
  [][/\ (last'.req.op = "POST /api/targets" /\ last'.status = 200) =>
          /\ last'.json.id \notin allocated["targets"]
          /\ \E r \in targets' :
                /\ targets' = targets \cup {r} /\ r.id = last'.json.id
                /\ r.type = last'.req.body.type /\ r.title = last'.req.body.title
                /\ r.period_key = last'.req.body.period_key
     /\ (last'.req.op = "POST /api/tasks" /\ last'.status = 200) =>
          /\ last'.json.id \notin allocated["tasks"]
          /\ \E r \in tasks' :
                /\ tasks' = tasks \cup {r} /\ r.id = last'.json.id
                /\ r.date = last'.req.body.date /\ r.title = last'.req.body.title
     /\ (last'.req.op = "POST /api/routine-templates" /\ last'.status = 200) =>
          /\ last'.json.id \notin allocated["routine_templates"]
          /\ \E r \in routine_templates' :
                /\ routine_templates' = routine_templates \cup {r}
                /\ r.id = last'.json.id /\ r.name = last'.req.body.name]_vars

\* the first template was deleted, then a template was made: it is the only
\* row and its id is 2
C10_Witness ==
  /\ last.req.op = "POST /api/routine-templates" /\ last.status = 200
  /\ last.json.id = 2
  /\ routine_templates = {[id |-> 2, name |-> "Morning"]}
  /\ allocated["routine_templates"] = {1, 2}
  /\ \E c \in routine_template_tasks : c.template_id = 2

\* C11: the completed column of every row of tasks and of targets is 0 or 1; a
\* row that appears (POST /api/tasks, POST /api/targets, apply-template) has 0;
\* and a PATCH answered with success leaves the row of its id with 1 when the
\* payload value is truthy (true, a non-zero number, a non-empty string) and
\* with 0 when it is false, 0, the empty string, null or missing.
C11_CompletedIsZeroOrOne ==
  /\ \A r \in tasks : r.completed \in {0, 1}
  /\ \A r \in targets : r.completed \in {0, 1}
  /\ [][/\ \A r \in tasks' : r.id \notin Ids(tasks) => r.completed = 0
        /\ \A r \in targets' : r.id \notin Ids(targets) => r.completed = 0
        /\ (PatchedTasks' /\ last'.status = 200) =>
              \A q \in tasks' : q.id = last'.req.id =>
                 q.completed = (IF last'.req.body.completed \in {"true", "2", "\"no\""}
                                THEN 1 ELSE 0)
        /\ (PatchedTargets' /\ last'.status = 200) =>
              \A q \in targets' : q.id = last'.req.id =>
                 q.completed = (IF last'.req.body.completed \in {"true", "2", "\"no\""}
                                THEN 1 ELSE 0)]_vars

\* the number 2 was sent for a task the template made: it holds 1, the other
\* task of the template holds 0, and the saved task was reset with null
C11_Witness ==
  /\ PatchedTasks /\ last.status = 200
  /\ last.req.body.completed = "2"
  /\ \E r, q, s \in tasks :
        /\ r.id = last.req.id /\ r.id > 1 /\ r.completed = 1
        /\ q.id > 1 /\ q.id # r.id /\ q.completed = 0
        /\ s.id = 1 /\ s.completed = 0

\* the saves of date d among the saves carried out, in the order handled
SavesOf(d) == SelectSeq(handled, LAMBDA r : r.body.date = d)

\* the last image a sequence of saves supplies, null when none supplies one
RECURSIVE LastImage(_)
LastImage(saves) ==
  IF saves = <<>> THEN Null
  ELSE IF saves[Len(saves)].body.image_data # Undefined
       THEN saves[Len(saves)].body.image_data
  ELSE LastImage(SubSeq(saves, 1, Len(saves) - 1))

\* C12: however the saves for a date were sent and in whatever order they were
\* handled, the store holds for the date what handling them one at a time in
\* that order leaves: one row whose five text fields are those of the save
\* handled last (null for a field it omits, never a field of an earlier save)
\* and whose image is the last image a save supplied in that order; no row
\* when no save of the date was carried out.
C12_LastWriteWins ==
  \A d \in Dates :
    LET saves == SavesOf(d)
        rows == {r \in entries : r.date = d}
    IN  IF saves = <<>> THEN rows = {}
        ELSE LET b == saves[Len(saves)].body
             IN  \E r \in rows :
                   /\ rows = {r}
                   /\ r.journal_text = Payload(b.journal_text)
                   /\ r.mood = Payload(b.mood)
                   /\ r.sleep_start = Payload(b.sleep_start)
                   /\ r.sleep_end = Payload(b.sleep_end)
                   /\ r.reflection_json = Payload(b.reflection_json)
                   /\ r.image_data = LastImage(saves)

\* three saves of one date were on their way together and all were handled: a
\* save with the second image first, the save without mood and image last;
\* the row has the text of the last save, no mood, and the second image
C12_Witness ==
  /\ requests = EmptyBag
  /\ Len(handled) = 3
  /\ handled[1].body.image_data = "data:image/png;base64,B"
  /\ handled[2].body.image_data = Undefined
  /\ handled[3].body = EntryBody("2024-01-01", "hello", "mood", Undefined)
  /\ \E r \in entries :
        /\ entries = {r}
        /\ r.journal_text = "hello" /\ r.mood = Null
        /\ r.image_data = "data:image/png;base64,B"

\* C13 (as claimed): whatever its arguments and whatever the remote model
\* answers, generateDailyImage hands its caller an image string or null and
\* analyzePatterns hands its caller the parsed analysis or null; neither
\* rejects.
C13_ServiceNeverRejects ==
  /\ gemini.fn = "generateDailyImage" =>
        /\ gemini.result.settled = "fulfilled"
        /\ gemini.result.value \in Images \cup {Null}
  /\ gemini.fn = "analyzePatterns" =>
        /\ gemini.result.settled = "fulfilled"
        /\ \/ gemini.result.value = JsNull
           \/ /\ ~gemini.response.threw
              /\ ~JsonParse(gemini.response.text).threw
              /\ gemini.result.value = JsonParse(gemini.response.text).value

\* the save carried out last is the one handleGenerateImage sent
ImageSaved ==
  handled # <<>> /\ handled[Len(handled)].by = "handleGenerateImage"

\* the server has carried out the user's latest edit
UserSaveCarriedOut ==
  \E i \in 1..Len(handled) : handled[i] = PostEntriesRequest(userSaved, "saveEntry")

\* C14 (as claimed): once the save of a generated image has been carried out
\* and nothing is on its way, the entry of its date holds that image, its other
\* fields hold what the user saved last (also when that was while the image
\* was being generated), and no entry of another date was written.
C14_ImageSaveKeepsText ==
  (ImageSaved /\ requests = EmptyBag) =>
    LET b == handled[Len(handled)].body
    IN  /\ \E r \in entries : r.date = b.date /\ r.image_data = b.image_data
        /\ UserSaveCarriedOut =>
              \E r \in entries :
                 /\ r.date = userSaved.date
                 /\ r.journal_text = Payload(userSaved.journal_text)
                 /\ r.mood = Payload(userSaved.mood)
                 /\ r.sleep_start = Payload(userSaved.sleep_start)
                 /\ r.sleep_end = Payload(userSaved.sleep_end)
                 /\ r.reflection_json = Payload(userSaved.reflection_json)
        /\ {r \in entries : r.date # b.date} \subseteq {SavedEntry}

\* C18: when generateDailyImage returns no image (the request failed, or the
\* answer carries none), handleGenerateImage sends no request and ends: no
\* table changes, the requests on their way stay on their way to be served,
\* and the button is enabled again.
C18_NoImageNoWrite ==
  [][(generating.pc = "ai" /\ gemini'.fn = "generateDailyImage"
        /\ gemini'.result.value = Null /\ generating' # generating) =>
       /\ UNCHANGED <<store, sqlite_sequence, requests, entry>>
       /\ generating'.pc = "idle"
       /\ ~isGeneratingImage']_vars

\* generation has just ended without an image on the day of the saved entry,
\* while an edit of the user is on its way: the stored entry has its image
C18_Witness ==
  /\ gemini.fn = "generateDailyImage" /\ gemini.result.value = Null
  /\ generating.pc = "idle" /\ ~isGeneratingImage
  /\ entries = {SavedEntry}
  /\ \E r \in BagToSet(requests) : r.by = "saveEntry" /\ r.body.journal_text = "bye"
  /\ handled = <<>>

PostedTemplate == last.req.op = "POST /api/routine-templates"

\* the name of the request `last` records
PostedName == IF last.status = 200 THEN last.req.body.name ELSE last.req.name

\* C15: no two rows of routine_templates have the same name (a row made
\* without a name has NULL, which is no name), and a POST /api/routine-templates
\* whose name a row has is answered with a failure, without an id, and leaves
\* routine_templates and routine_template_tasks as they were.
C15_NamesAreUnique ==
  /\ \A r, q \in routine_templates : (r.name = q.name /\ r.name # Null) => r = q
  /\ [][(PostedTemplate' /\ \E t \in routine_templates : t.name = PostedName') =>
          /\ last'.status = 500
          /\ UNCHANGED <<routine_templates, routine_template_tasks, sqlite_sequence>>]_vars

\* "Morning" was posted with a title while the one template has that name:
\* the request failed, the template and its one child are there, no rowid was
\* used up
C15_Witness ==
  /\ PostedTemplate /\ last.status = 500 /\ last.req.name = "Morning"
  /\ routine_templates = {[id |-> 1, name |-> "Morning"]}
  /\ routine_template_tasks = {[id |-> 1, template_id |-> 1, title |-> "Hydrate"]}
  /\ sqlite_sequence["routine_templates"] = 1
  /\ sqlite_sequence["routine_template_tasks"] = 1

\* C16: a GET /api/entries/:date of a date that had no entry and for which one
\* save, without image, has been carried out since (whatever was saved for
\* other dates) answers an entry with that date, with the five text fields of
\* that save (null for one it omits) and with image_data null.
C16_SaveThenRead ==
  [][(/\ last'.req.op = "GET /api/entries/:date"
      /\ Len(SavesOf(last'.req.date)) = 1
      /\ SavesOf(last'.req.date)[1].body.image_data = Undefined) =>
       LET b == SavesOf(last'.req.date)[1].body
           e == last'.json
       IN  /\ e.date = last'.req.date
           /\ e.journal_text = Payload(b.journal_text)
           /\ e.mood = Payload(b.mood)
           /\ e.sleep_start = Payload(b.sleep_start)
           /\ e.sleep_end = Payload(b.sleep_end)
           /\ e.reflection_json = Payload(b.reflection_json)
           /\ e.image_data = Null]_vars

\* the first date was saved once, without mood and image, then the other date
\* was saved, then the first date was read
C16_Witness ==
  /\ last.req.op = "GET /api/entries/:date" /\ last.req.date = "2024-01-01"
  /\ Len(handled) = 2
  /\ handled[1].body = EntryBody("2024-01-01", "bye", "mood", Undefined)
  /\ handled[2].body.date = "2024-02-02"
  /\ last.json.id = 1
  /\ last.json.journal_text = "bye" /\ last.json.mood = Null
  /\ last.json.image_data = Null

\* C17: GET /api/entries answers a list that holds every stored entry once,
\* in which no entry comes before one of a later date.
C17_NewestFirst ==
  [][last'.req.op = "GET /api/entries" =>
       LET list == last'.json
       IN  /\ last'.status = 200
           /\ Len(list) = Cardinality(entries)
           /\ {list[i] : i \in 1..Len(list)} = entries
           /\ \A i \in 1..(Len(list) - 1) :
                 Rank(list[i].date) >= Rank(list[i + 1].date)]_vars

\* the oldest day was saved first, the newest second, the middle one third:
\* the list has the second row, the third, the first
C17_Witness ==
  /\ last.req.op = "GET /api/entries"
  /\ Len(last.json) = 3
  /\ last.json[1].id = 2 /\ last.json[1].date = "2024-02-02"
  /\ last.json[2].id = 3 /\ last.json[2].date = "2024-01-01"
  /\ last.json[3].id = 1 /\ last.json[3].date = "2023-12-31"

\* C20 (as claimed): the busy flags clear on every outcome: when no
\* handleAnalyze is running isAnalyzing is false, and when no
\* handleGenerateImage is running isGeneratingImage is false.
C20_BusyFlagsClear ==
  /\ analyzing.pc = "idle" => ~isAnalyzing
  /\ generating.pc = "idle" => ~isGeneratingImage

DeletedTemplate == last.req.op = "DELETE /api/routine-templates/:id"

\* C19: DELETE /api/routine-templates/:id, with the cascade to the children of
\* the template, leaves the tasks table as it was: the tasks an
\* apply-template made of that template keep id, date, title and completed.
C19_TasksOutliveTemplate ==
  [][DeletedTemplate' => tasks' = tasks]_vars

\* the stocked template was applied, the task made of its first title was
\* completed, and the template was deleted with its children: the two tasks
\* are there, the first completed
C19_Witness ==
  /\ DeletedTemplate /\ last.status = 200 /\ last.req.id = SavedTemplate.id
  /\ routine_templates = {}
  /\ routine_template_tasks = {}
  /\ [id |-> 2, date |-> "2024-02-02", title |-> "Stretch", completed |-> 1] \in tasks
  /\ [id |-> 3, date |-> "2024-02-02", title |-> "Hydrate", completed |-> 0] \in tasks

\* C21 (as claimed): once every call of fetchDailyData has settled, whatever
\* the day changes and the order of the answers were, the entry and the tasks
\* on the page are those of the selected date (so that the next saveEntry,
\* which posts the entry on the page, writes to the selected date).
C21_ShowsSelectedDate ==
  fetching = EmptyBag =>
    /\ entry.date = selectedDate
    /\ \A i \in 1..Len(dayTasks) : dayTasks[i].date = selectedDate

\* every save the server has carried out was sent by saveEntry for an edit of
\* the user
OnlyUserSaves == \A i \in 1..Len(handled) : handled[i].by = "saveEntry"

\* C22 (as claimed): once every POST /api/entries of the user's edits of a day
\* has been answered, in whatever order the server got them, the stored entry
\* of the day has in its text fields what the page holds, which is what the
\* last saveEntry call sent.  Stated for runs in which the server carried out
\* that last save and no save of a generated image.
C22_ClientAndStoreConverge ==
  (requests = EmptyBag /\ generating.pc = "idle" /\ OnlyUserSaves
     /\ UserSaveCarriedOut /\ entry = userSaved) =>
    \E r \in entries :
       /\ r.date = entry.date
       /\ r.journal_text = Payload(entry.journal_text)
       /\ r.mood = Payload(entry.mood)
       /\ r.sleep_start = Payload(entry.sleep_start)
       /\ r.sleep_end = Payload(entry.sleep_end)
       /\ r.reflection_json = Payload(entry.reflection_json)

\* the targets a list shows
Shown(list) == {list[i] : i \in 1..Len(list)}

\* what every fetchTargets call sets: exactly the stored targets whose type is
\* the type of the render that called it and whose period_key is the key the
\* call computed for that type, each once; the server answers the targets of
\* every type with that key and the view keeps those of the one type
FetchedListIsTypeAndKey ==
  [][\A r \in BagToSet(requests) :
       (r.op = "GET /api/targets/:period" /\ requests' = requests (-) SetToBag({r})) =>
         /\ \E i \in 1..Len(ClockDays) : r.period = GetPeriodKey(r.type, ClockDays[i])
         /\ Shown(last'.json) = {x \in targets : x.period_key = r.period}
         /\ Shown(shownTargets') =
              {x \in targets : x.type = r.type /\ x.period_key = r.period}
         /\ Len(shownTargets') = Cardinality(Shown(shownTargets'))]_vars

\* C23 (as claimed): with no request on its way, the list shown for the
\* selected type t holds exactly the stored targets whose type is t and whose
\* period_key is the key computed for t (on the day of the fetch), also when
\* targets of another type are stored under the same key.
C23_ListIsOfSelectedType ==
  requests = EmptyBag =>
    \E i \in 1..Len(ClockDays) :
       Shown(shownTargets) =
         {x \in targets : x.type = type
                            /\ x.period_key = GetPeriodKey(type, ClockDays[i])}

====
